---- MODULE Spec2Model ----
(***************************************************************************)
(* A model of the logging runtime of the Red bot: the line writer that     *)
(* elides empty lines, the fern dispatcher with its four sinks, the        *)
(* initialisation of the logger and the log rotator task.                  *)
(*                                                                         *)
(* Text is modelled as a sequence of characters, each character a string   *)
(* of length one (a few multi-character tokens stand for the timestamp and *)
(* the level names, which never contain whitespace).                       *)
(***************************************************************************)
EXTENDS Integers, Sequences, FiniteSets, TLC

VARIABLES
    \* ---- NoEmptyLineWriter under test (logger.rs 14-56)
    buffer,        \* NoEmptyLineWriter.buffer
    inner,         \* the bytes the underlying writer has received
    chunks,        \* the arguments of the write_all calls on the underlying writer
    elided,        \* number of lines and tails the writer has dropped
    wcalls,        \* number of write/flush calls made so far
    input,         \* the bytes passed to write so far, in order
    \* ---- get_next_rotation_time applied to drawn inputs (logrotate.rs 9-19)
    nr_now,        \* the instant passed as `now`
    nr_rt,         \* the NaiveTime passed as `rotation_time`, as <<hour, minute>>
    nr_next,       \* the instant returned (NoInstant before the call)
    \* ---- parse_frequency applied to drawn inputs (logger.rs 257)
    fq_text,       \* config.logrotate.frequency, as characters
    fq_days,       \* the rotation_frequency handed to the rotator (NoDays before)
    \* ---- the process: configuration, clock, logger (logger.rs 113-264)
    cfg,           \* the Config handed to init_logger_with_config
    clock,         \* the wall clock: what Local::now() returns
    installed,     \* the process-wide logger has been set (dispatch.apply() succeeded)
    installs,      \* number of times a dispatcher was committed as the global logger
    dispatcher,    \* the installed Dispatch: its level and its chains
    open_day,      \* the date of the partition the installed sinks were opened in
    sinks,         \* per sink, the NoEmptyLineWriter and what its file or stdout received
    init_result,   \* what the last call of init_logger_with_config returned
    rec,           \* the record a producer emits
    logged,        \* number of times the producer has emitted it
    got,           \* the sinks whose underlying writer received the last emitted record
    reached,       \* the last emitted record was handed to an installed dispatcher
    \* ---- two producers logging concurrently
    precs,         \* per producer, the record its log macro was called with
    ppc,           \* per producer, the chain its record is at and the step there
    holder,        \* per sink, the producer holding the writer's mutex (0: free)
    \* ---- the log base directory
    base_exists,   \* config.logging.directory exists
    fs,            \* the entries directly under it: [name, dir]
    \* ---- the rotator task (logrotate.rs 77-136)
    spawned,       \* number of rotator tasks spawned
    rot_pc,        \* where schedule_log_rotation stands
    rot_today,     \* `today` of the pass in progress or last made
    rot_snap,      \* the entries read_dir found when that pass began
    rot_todo,      \* the entries read_dir has not yet yielded
    rot_removed,   \* the entries that pass has deleted
    rot_failed,    \* the entries on which a file system call of that pass failed
    rot_result,    \* what the last finished pass returned
    wake_at,       \* the instant the sleep of line 129 ends
    \* ---- an observer of the rotator's schedule
    probe,         \* the observer is attached
    pass_starts,   \* the instants at which rotate_logs_async was called
    slept_for,     \* the instants next_rotation the task has slept until
    failed_passes, \* which of those calls, by number, returned an error
    done_passes,   \* per returned call: its date, its result, the entries left
    lag,           \* clock ticks since the task last became runnable
    \* ---- the configuration store (bot/utils/config.rs)
    file,          \* the text of config.toml, or NoFile
    snaps,         \* config.toml as the operator left it, then after each run
                   \* since: [text, wrote]
    wrote,         \* the last run of load_or_create_and_validate wrote config.toml
    outcome,       \* how that run ended: "Ok", "Exit1", "Io" or "Deser"
    loaded,        \* the Config it returned (NoConfig if it returned none)
    notices,       \* the warnings and errors it logged
    delivered,     \* those of them that reached a sink of the dispatcher
    edits,         \* number of times the operator has edited config.toml
    loads          \* number of runs of load_or_create_and_validate

wvars == <<buffer, inner, chunks, elided, wcalls, input>>
fqvars == <<fq_text, fq_days>>
nrvars == <<nr_now, nr_rt, nr_next, fqvars>>
logvars == <<installed, installs, dispatcher, open_day, sinks, init_result>>
concvars == <<precs, ppc, holder>>
prodvars == <<rec, logged, got, reached, concvars>>
vars == <<buffer, inner, chunks, elided, wcalls, input, nr_now, nr_rt, nr_next,
          fq_text, fq_days,
          cfg, clock, installed, installs, dispatcher, open_day, sinks, init_result,
          rec, logged, got, reached, precs, ppc, holder, base_exists, fs,
          spawned, rot_pc, rot_today, rot_snap, rot_todo, rot_removed, rot_failed,
          rot_result,
          wake_at, probe, pass_starts, slept_for, failed_passes, done_passes, lag,
          file, snaps, wrote, outcome, loaded, notices, delivered, edits, loads>>
fsvars == <<base_exists, fs>>
passvars == <<rot_today, rot_snap, rot_todo, rot_removed, rot_failed, rot_result>>
schedvars == <<probe, pass_starts, slept_for, failed_passes, done_passes, lag>>
rotvars == <<spawned, rot_pc, passvars, wake_at, schedvars>>
confvars == <<file, snaps, wrote, outcome, loaded, notices, delivered, edits, loads>>
sysvars == <<cfg, clock, logvars, prodvars, fsvars, rotvars, confvars>>

(***************************************************************************)
(* Bounds                                                                  *)
(***************************************************************************)
MaxWriteLen == 2       \* longest slice passed to one write call
MaxCalls == 3          \* write/flush calls on the writer under test
SecsPerMin == 2        \* the clock's resolution: ticks per minute
MinsPerHour == 2       \* minutes per hour of the scaled calendar
HoursPerDay == 2       \* hours per day of the scaled calendar
MaxDay == 1            \* last calendar day the clock reaches
MaxRecords == 1        \* times the producer emits its record
MaxRetention == 1      \* largest retention, in days, a configuration asks for
MaxEntries == 2        \* entries under the base directory when the process starts
MaxLag == 1            \* clock ticks that may pass while the rotator task is runnable
MaxEdits == 1          \* times the operator edits config.toml
MaxLoads == 2          \* runs of load_or_create_and_validate
MaxFreqLen == 3        \* longest frequency string drawn

(***************************************************************************)
(* Text helpers                                                            *)
(***************************************************************************)
\* char::is_whitespace for the characters used here
WhiteSpace == {" ", "\n", "\t", "\r"}

RECURSIVE TrimStart(_)
TrimStart(s) ==
    IF s = <<>> THEN s
    ELSE IF Head(s) \in WhiteSpace THEN TrimStart(Tail(s)) ELSE s

RECURSIVE TrimEnd(_)
TrimEnd(s) ==
    IF s = <<>> THEN s
    ELSE IF s[Len(s)] \in WhiteSpace THEN TrimEnd(SubSeq(s, 1, Len(s) - 1)) ELSE s

\* str::trim
Trim(s) == TrimEnd(TrimStart(s))

\* String::from_utf8_lossy: a byte that is not valid UTF-8 becomes U+FFFD
FromUtf8Lossy(bytes) ==
    [i \in 1..Len(bytes) |-> IF bytes[i] = "xFF" THEN "uFFFD" ELSE bytes[i]]

\* position of the first "\n" of s, 0 when there is none
RECURSIVE NewlinePos(_, _)
NewlinePos(s, i) ==
    IF i > Len(s) THEN 0
    ELSE IF s[i] = "\n" THEN i ELSE NewlinePos(s, i + 1)

\* all sequences over S of length 1..n
SeqsUpTo(S, n) == UNION {[1..k -> S] : k \in 1..n}

(***************************************************************************)
(* NoEmptyLineWriter                                                       *)
(***************************************************************************)
\* the test of lines 37-38 and 48-49: the lossy text, trimmed, is not empty
KeepLine_NoCheck(bytes) == TRUE

KeepLine(bytes) == Trim(FromUtf8Lossy(bytes)) # <<>>

\* the while loop of write (lines 34-41) on a writer state
\* w = [buffer, inner, chunks, elided]
RECURSIVE DrainLines(_)
DrainLines(w) ==
    LET pos == NewlinePos(w.buffer, 1) IN
    IF pos = 0 THEN w
    ELSE LET line_bytes == SubSeq(w.buffer, 1, pos)
             rest == SubSeq(w.buffer, pos + 1, Len(w.buffer))
         IN IF KeepLine(line_bytes)
            THEN DrainLines([buffer |-> rest,
                             inner |-> w.inner \o line_bytes,
                             chunks |-> Append(w.chunks, line_bytes),
                             elided |-> w.elided])
            ELSE DrainLines([w EXCEPT !.buffer = rest, !.elided = w.elided + 1])

\* NoEmptyLineWriter::write
WriterWrite(w, buf) == DrainLines([w EXCEPT !.buffer = w.buffer \o buf])

\* NoEmptyLineWriter::flush
WriterFlush(w) ==
    IF w.buffer # <<>>
    THEN IF KeepLine(w.buffer)
         THEN [buffer |-> <<>>,
               inner |-> w.inner \o w.buffer,
               chunks |-> Append(w.chunks, w.buffer),
               elided |-> w.elided]
         ELSE [w EXCEPT !.buffer = <<>>, !.elided = w.elided + 1]
    ELSE w

\* NoEmptyLineWriter::new
WriterNew == [buffer |-> <<>>, inner |-> <<>>, chunks |-> <<>>, elided |-> 0]

WBytes == {"a", " ", "\n"}

WState == [buffer |-> buffer, inner |-> inner, chunks |-> chunks, elided |-> elided]

WInit ==
    /\ buffer = WriterNew.buffer
    /\ inner = WriterNew.inner
    /\ chunks = WriterNew.chunks
    /\ elided = WriterNew.elided
    /\ wcalls = 0
    /\ input = <<>>

Write(buf) ==
    /\ wcalls < MaxCalls
    /\ LET w == WriterWrite(WState, buf) IN
        /\ buffer' = w.buffer
        /\ inner' = w.inner
        /\ chunks' = w.chunks
        /\ elided' = w.elided
    /\ wcalls' = wcalls + 1
    /\ input' = input \o buf
    /\ UNCHANGED <<nrvars, sysvars>>

Flush ==
    /\ wcalls < MaxCalls
    /\ LET w == WriterFlush(WState) IN
        /\ buffer' = w.buffer
        /\ inner' = w.inner
        /\ chunks' = w.chunks
        /\ elided' = w.elided
    /\ wcalls' = wcalls + 1
    /\ UNCHANGED input
    /\ UNCHANGED <<nrvars, sysvars>>

(***************************************************************************)
(* The wall clock: an instant is a number of ticks since day 0, 00:00:00   *)
(***************************************************************************)
MinLen == SecsPerMin
HourLen == MinsPerHour * MinLen
DayLen == HoursPerDay * HourLen

DateOf(t) == t \div DayLen                        \* date_naive()
TimeOf(t) == t % DayLen                           \* time()
HourOf(t) == TimeOf(t) \div HourLen
MinuteOf(t) == (TimeOf(t) % HourLen) \div MinLen
SecondOf(t) == TimeOf(t) % MinLen

\* NaiveTime::from_hms_opt(hour, minute, 0) as ticks since midnight
FromHms(rt) == rt[1] * HourLen + rt[2] * MinLen

\* NaiveDate::and_time
AndTime(date, time) == date * DayLen + time

(***************************************************************************)
(* get_next_rotation_time                                                  *)
(***************************************************************************)
get_next_rotation_time_le(now, rotation_time) ==
    LET today_rt == AndTime(DateOf(now), FromHms(rotation_time)) IN
    IF TimeOf(now) <= FromHms(rotation_time) THEN today_rt ELSE today_rt + DayLen

get_next_rotation_time(now, rotation_time) ==
    LET today_rt == AndTime(DateOf(now), FromHms(rotation_time)) IN
    IF TimeOf(now) < FromHms(rotation_time) THEN today_rt ELSE today_rt + DayLen

NoInstant == 0 - 1
Instants == 0..((MaxDay + 1) * DayLen - 1)
ValidTimes == (0..(HoursPerDay - 1)) \X (0..(MinsPerHour - 1))

NRInit ==
    /\ nr_now \in Instants
    /\ nr_rt \in ValidTimes
    /\ nr_next = NoInstant

ComputeNext ==
    /\ nr_next = NoInstant
    /\ nr_next' = get_next_rotation_time(nr_now, nr_rt)
    /\ UNCHANGED <<nr_now, nr_rt, fqvars>>
    /\ UNCHANGED <<wvars, sysvars>>

(***************************************************************************)
(* LogRotateConfig::parse_frequency, called at logger.rs 257.  Its body is *)
(* not in this source tree; it is modelled on the rule the specification   *)
(* gives for duration parsing: "Nd", surrounding whitespace trimmed, is N; *)
(* a bare "N" is N; anything else is 7.                                    *)
(***************************************************************************)
Digits == {"0", "1", "2", "3", "4", "5", "6", "7", "8", "9"}

DigitValue(c) == CHOOSE n \in 0..9 : ToString(n) = c

\* str::parse::<u64> of a string of digits
RECURSIVE NumberOf(_)
NumberOf(ds) ==
    IF ds = <<>> THEN 0
    ELSE NumberOf(SubSeq(ds, 1, Len(ds) - 1)) * 10 + DigitValue(ds[Len(ds)])

IsNumber(ds) == ds # <<>> /\ \A i \in 1..Len(ds) : ds[i] \in Digits

\* the text without its surrounding whitespace and without a final "d"
DaysPart(text) ==
    LET t == Trim(text) IN
    IF t # <<>> /\ t[Len(t)] = "d" THEN SubSeq(t, 1, Len(t) - 1) ELSE t

parse_frequency(text) ==
    IF IsNumber(DaysPart(text)) THEN NumberOf(DaysPart(text)) ELSE 7

NoDays == 0 - 1
FrequencyChars == {"0", "1", "7", "d", " ", "x"}

FqIdle == fq_text = <<"7", "d">> /\ fq_days = NoDays

FqInit ==
    /\ fq_text \in SeqsUpTo(FrequencyChars, MaxFreqLen)
    /\ fq_days = NoDays

\* logger.rs 257: the retention init_logger_with_config hands to the rotator
ParseFrequency ==
    /\ fq_days = NoDays
    /\ fq_days' = parse_frequency(fq_text)
    /\ UNCHANGED <<fq_text, nr_now, nr_rt, nr_next>>
    /\ UNCHANGED <<wvars, sysvars>>

(***************************************************************************)
(* Log records and levels                                                  *)
(***************************************************************************)
\* log::Level, ordered by its discriminants: Error = 1 < Warn < Info < Debug < Trace
LevelRank == [Error |-> 1, Warn |-> 2, Info |-> 3, Debug |-> 4, Trace |-> 5]
Levels == DOMAIN LevelRank

\* log::LevelFilter adds Off = 0 below Error
FilterRank == [Off |-> 0, Error |-> 1, Warn |-> 2, Info |-> 3, Debug |-> 4, Trace |-> 5]

\* Dispatch::level: a record passes when its level is at most the filter
LevelEnabled(level, filter) == LevelRank[level] <= FilterRank[filter]

\* str::to_lowercase on the log_level strings drawn here
ToLowercase(s) ==
    CASE s = "INFO" -> "info"
      [] s = "Both" -> "both"
      [] OTHER -> s

\* lines 115-122 of init_logger_with_config
LogLevelOf(log_level) ==
    LET l == ToLowercase(log_level) IN
    CASE l = "error" -> "Error"
      [] l = "warn" -> "Warn"
      [] l = "info" -> "Info"
      [] l = "debug" -> "Debug"
      [] l = "trace" -> "Trace"
      [] OTHER -> "Info"

\* str::starts_with
StartsWith(s, prefix) ==
    Len(s) >= Len(prefix) /\ SubSeq(s, 1, Len(prefix)) = prefix

HEARTBEAT_WORDS ==
    {<<"into_future;">>, <<"start;">>, <<"shutdown_all;">>, <<"initialize;">>,
     <<"run;">>, <<"latency;">>, <<"check_last_start;">>, <<"recv;">>,
     <<"do_heartbeat;">>, <<"recv_event;">>, <<"resume;">>, <<"update_manager;">>,
     <<"action;">>, <<"identify;">>, <<"heartbeat;">>}

is_heartbeat_short_list(record) ==
    record.msg \in HEARTBEAT_WORDS \ {<<"heartbeat;">>}

is_heartbeat(record) == record.msg \in HEARTBEAT_WORDS

\* the filters of lines 185-188
non_serenity_filter(record) == ~StartsWith(record.target, <<"serenity">>)

serenity_filter(record) ==
    /\ StartsWith(record.target, <<"serenity">>)
    /\ LevelRank[record.level] >= LevelRank["Warn"]

\* "{} [{}] {}" of current_timestamp(), the level and the message
FormatLine(level_text, record) ==
    <<"TS", " ", "[", level_text, "]", " ">> \o record.msg

\* colorize_level: the level name inside ANSI colour codes
colorize_level(level) == "ESC[" \o level \o "]"

non_serenity_console_format(record) ==
    IF is_heartbeat(record) THEN <<>>
    ELSE FormatLine(colorize_level(record.level), record)

non_serenity_file_format(record) ==
    IF is_heartbeat(record) THEN <<>>
    ELSE FormatLine(record.level, record)

file_format(record) == FormatLine(record.level, record)

heartbeat_file_format(record) ==
    IF record.target # <<"heartbeat">> /\ ~is_heartbeat(record) THEN <<>>
    ELSE FormatLine(record.level, record)

SinkNames == {"red.log", "console", "serenity.log", "heartbeat.log"}

\* the filter and the formatter each chain of lines 196-230 is built with
ChainFilter(sink, record) ==
    CASE sink = "red.log" -> non_serenity_filter(record)
      [] sink = "console" -> non_serenity_filter(record)
      [] sink = "serenity.log" -> serenity_filter(record)
      [] sink = "heartbeat.log" -> TRUE

ChainFormat(sink, record) ==
    CASE sink = "red.log" -> non_serenity_file_format(record)
      [] sink = "console" -> non_serenity_console_format(record)
      [] sink = "serenity.log" -> file_format(record)
      [] sink = "heartbeat.log" -> heartbeat_file_format(record)

\* lines 217-237: the chains of the dispatcher, in the order they are added
BuildDispatch(config) ==
    [level |-> LogLevelOf(config.log_level),
     chains |-> <<"red.log", "console">> \o
                (IF config.extra_logs THEN <<"serenity.log", "heartbeat.log">>
                 ELSE <<>>)]

\* before apply() the log macros reach no logger
NoDispatch == [level |-> "Off", chains |-> <<>>]

\* fern's writer output: the formatted text, the line separator, then a flush
WriteRecord(w, text) == WriterFlush(WriterWrite(WriterWrite(w, text), <<"\n">>))

\* one chain of the dispatcher given one record
ChainLog(sink, w, record) ==
    IF ChainFilter(sink, record) THEN WriteRecord(w, ChainFormat(sink, record)) ELSE w

\* a root dispatcher that hands every record to its chains
DispatchLog_NoLevel(d, ss, record) ==
    [s \in SinkNames |->
        IF \E i \in 1..Len(d.chains) : d.chains[i] = s
        THEN ChainLog(s, ss[s], record)
        ELSE ss[s]]

\* Dispatch::log of the root dispatcher: the level, then every chain
DispatchLog(d, ss, record) ==
    IF ~LevelEnabled(record.level, d.level) THEN ss
    ELSE [s \in SinkNames |->
            IF \E i \in 1..Len(d.chains) : d.chains[i] = s
            THEN ChainLog(s, ss[s], record)
            ELSE ss[s]]

RECURSIVE DispatchAll(_, _, _)
DispatchAll(d, ss, records) ==
    IF records = <<>> THEN ss
    ELSE DispatchAll(d, DispatchLog(d, ss, Head(records)), Tail(records))

\* the sinks whose underlying writer received bytes between ss and tt
Received(ss, tt) == {s \in SinkNames : tt[s].inner # ss[s].inner}

OwnTarget == <<"red", "::", "bot", "::", "utils", "::", "log", "::", "logger">>

\* lines 241-253: what init_logger_with_config logs once the dispatcher is applied
InitRecords(config) ==
    (IF config.extra_logs
     THEN <<[level |-> "Warn", target |-> <<"serenity">>,
             msg |-> <<"Logging", " ", "initialized.">>],
            [level |-> "Warn", target |-> <<"heartbeat">>,
             msg |-> <<"Logging", " ", "initialized.">>]>>
     ELSE <<>>)
    \o <<[level |-> "Info", target |-> OwnTarget,
          msg |-> <<"Logger", " ", "initialized", " ", "with", " ", "level", " ",
                    LogLevelOf(config.log_level)>>],
         [level |-> "Info", target |-> OwnTarget,
          msg |-> <<"Logging", " ", "to", " ", "file:", " ", "red.log">>]>>
    \o (IF config.extra_logs
        THEN <<[level |-> "Info", target |-> OwnTarget,
                msg |-> <<"Serenity", " ", "logs", " ", "to", " ", "file:", " ",
                          "serenity.log">>],
               [level |-> "Info", target |-> OwnTarget,
                msg |-> <<"Heartbeat", " ", "logs", " ", "to", " ", "file:", " ",
                          "heartbeat.log">>]>>
        ELSE <<[level |-> "Info", target |-> OwnTarget,
                msg |-> <<"Extra", " ", "logs", " ", "disabled;">>]>>)

(***************************************************************************)
(* The log base directory                                                  *)
(***************************************************************************)
\* "%Y-%m-%d" of the calendar day d (day 0 is 2024-01-01)
FormatDate(d) ==
    IF d + 1 < 10 THEN "2024-01-0" \o ToString(d + 1)
    ELSE "2024-01-" \o ToString(d + 1)

DirEntry(name) == [name |-> name, dir |-> TRUE]
FileEntry(name) == [name |-> name, dir |-> FALSE]

\* the partition directory <base>/<date>
Partition(d) == DirEntry(FormatDate(d))

(***************************************************************************)
(* init_logger_with_config                                                 *)
(***************************************************************************)
\* Outcomes of the file system calls of one init: all succeed, create_dir_all
\* fails, or fern::log_file fails on one of the three files.
InitIo == {"ok", "mkdir", "red", "serenity", "heartbeat"}

\* dispatch.apply(): log::set_boxed_logger fails once a logger is set
ApplyFails_Never(is_set) == FALSE

ApplyFails(is_set) == is_set

\* a rotator task spawned by every call, whatever the call returns
SpawnsOn_Always(result) == 1

\* tokio::spawn of line 259 stands after the `?` of fern::log_file (lines
\* 193, 202, 212) and of dispatch.apply() (line 241): the number of tasks a
\* call that returns result has spawned
SpawnsOn(result) == IF result = "Ok" THEN 1 ELSE 0

InitLogger(io) ==
    LET today == DateOf(clock)                 \* create_log_directory, line 104
        part == Partition(today)
        blocked == \E e \in fs : e.name = part.name /\ ~e.dir
        missing == ~base_exists \/ (part \notin fs /\ ~blocked)
        mkdir_fails == missing /\ io = "mkdir"
        created == missing /\ ~mkdir_fails
        open_fails == \/ blocked
                      \/ io = "red"
                      \/ cfg.extra_logs /\ io \in {"serenity", "heartbeat"}
        d == BuildDispatch(cfg)
    IN
    /\ base_exists' = (base_exists \/ created)
    /\ fs' = IF created THEN fs \cup {part} ELSE fs
    /\ IF mkdir_fails \/ open_fails
       THEN /\ init_result' = "Io"
            /\ UNCHANGED <<installed, installs, dispatcher, open_day, sinks>>
            /\ spawned' = spawned + SpawnsOn("Io")
            /\ UNCHANGED rot_pc
       ELSE IF ApplyFails(installed)
       THEN /\ init_result' = "AlreadyInitialised"
            /\ UNCHANGED <<installed, installs, dispatcher, open_day, sinks>>
            /\ spawned' = spawned + SpawnsOn("AlreadyInitialised")
            /\ UNCHANGED rot_pc
       ELSE /\ installed' = TRUE
            /\ installs' = installs + 1
            /\ dispatcher' = d
            /\ open_day' = today
            /\ sinks' = DispatchAll(d, sinks, InitRecords(cfg))
            /\ spawned' = spawned + SpawnsOn("Ok")
            /\ rot_pc' = "start"
            /\ init_result' = "Ok"
    /\ UNCHANGED <<cfg, confvars, clock, prodvars, passvars, wake_at, schedvars, wvars, nrvars>>

\* a producer's log macro: the record goes to the installed dispatcher
Log ==
    /\ logged < MaxRecords
    /\ sinks' = DispatchLog(dispatcher, sinks, rec)
    /\ got' = Received(sinks, sinks')
    /\ reached' = installed
    /\ logged' = logged + 1
    /\ UNCHANGED <<rec, concvars, cfg, confvars, clock, installed, installs, dispatcher, open_day,
                   init_result, fsvars, rotvars, wvars, nrvars>>

(***************************************************************************)
(* Two producers logging at once.  The log macro runs on the caller's      *)
(* thread: the root dispatcher tests the level, then hands the record to   *)
(* its chains in order; a chain tests its filter, formats the record and   *)
(* gives the text to its writer, a Box<dyn Write + Send> behind a mutex,   *)
(* which is locked, written the text and the line separator, flushed and   *)
(* unlocked.                                                               *)
(***************************************************************************)
Producers == {1, 2}

NotEmitted == [chain |-> 0, step |-> "idle"]
Emitted == [chain |-> 0, step |-> "done"]

\* no producer has called a log macro
ProdIdle ==
    /\ precs = [p \in Producers |-> rec]
    /\ ppc = [p \in Producers |-> NotEmitted]
    /\ holder = [s \in SinkNames |-> 0]

\* the first chain from the i-th on whose filter accepts the record, or 0
NextChain(record, i) ==
    LET accepting == {j \in i..Len(dispatcher.chains) :
                         ChainFilter(dispatcher.chains[j], record)}
    IN IF accepting = {} THEN 0
       ELSE CHOOSE j \in accepting : \A k \in accepting : j <= k

\* where a record stands once the chains before the i-th are done
AtChain(record, i) ==
    IF NextChain(record, i) = 0 THEN Emitted
    ELSE [chain |-> NextChain(record, i), step |-> "wait"]

\* the sink of the chain producer p is at
SinkOf(p) == dispatcher.chains[ppc[p].chain]

\* a writer whose mutex does not exclude
Free_Always(s) == holder[s] \in {0} \cup Producers

\* Mutex::lock on the writer of sink s succeeds
Free(s) == holder[s] = 0

\* the log macro: the root dispatcher's level, then the first chain
Emit(p) ==
    /\ installed
    /\ ppc[p] = NotEmitted
    /\ ppc' = [ppc EXCEPT ![p] =
                  IF LevelEnabled(precs[p].level, dispatcher.level)
                  THEN AtChain(precs[p], 1) ELSE Emitted]
    /\ UNCHANGED <<precs, holder, rec, logged, got, reached>>
    /\ UNCHANGED <<cfg, confvars, clock, logvars, fsvars, rotvars, wvars, nrvars>>

\* the writer's mutex is taken
Lock(p) ==
    /\ ppc[p].step = "wait"
    /\ Free(SinkOf(p))
    /\ holder' = [holder EXCEPT ![SinkOf(p)] = p]
    /\ ppc' = [ppc EXCEPT ![p].step = "text"]
    /\ UNCHANGED <<precs, rec, logged, got, reached>>
    /\ UNCHANGED <<cfg, confvars, clock, logvars, fsvars, rotvars, wvars, nrvars>>

\* write! hands the formatted text to NoEmptyLineWriter::write
WriteText(p) ==
    /\ ppc[p].step = "text"
    /\ sinks' = [sinks EXCEPT ![SinkOf(p)] =
                    WriterWrite(@, ChainFormat(SinkOf(p), precs[p]))]
    /\ ppc' = [ppc EXCEPT ![p].step = "sep"]
    /\ UNCHANGED <<precs, holder, rec, logged, got, reached>>
    /\ UNCHANGED <<cfg, confvars, clock, installed, installs, dispatcher, open_day,
                   init_result, fsvars, rotvars, wvars, nrvars>>

\* write! hands the line separator to NoEmptyLineWriter::write
WriteSep(p) ==
    /\ ppc[p].step = "sep"
    /\ sinks' = [sinks EXCEPT ![SinkOf(p)] = WriterWrite(@, <<"\n">>)]
    /\ ppc' = [ppc EXCEPT ![p].step = "flush"]
    /\ UNCHANGED <<precs, holder, rec, logged, got, reached>>
    /\ UNCHANGED <<cfg, confvars, clock, installed, installs, dispatcher, open_day,
                   init_result, fsvars, rotvars, wvars, nrvars>>

\* NoEmptyLineWriter::flush, the mutex is released, and the next chain
FlushUnlock(p) ==
    /\ ppc[p].step = "flush"
    /\ sinks' = [sinks EXCEPT ![SinkOf(p)] = WriterFlush(@)]
    /\ holder' = [holder EXCEPT ![SinkOf(p)] =
                     IF @ = p THEN 0 ELSE @]
    /\ ppc' = [ppc EXCEPT ![p] = AtChain(precs[p], ppc[p].chain + 1)]
    /\ UNCHANGED <<precs, rec, logged, got, reached>>
    /\ UNCHANGED <<cfg, confvars, clock, installed, installs, dispatcher, open_day,
                   init_result, fsvars, rotvars, wvars, nrvars>>

(***************************************************************************)
(* The rotator                                                             *)
(***************************************************************************)
\* str::parse::<u32> of one part of the rotation time; ParseError when it fails
ParseError == 0 - 1
ParseU32(part) ==
    IF \E n \in 0..99 : part = ToString(n) \/ part = "0" \o ToString(n)
    THEN CHOOSE n \in 0..99 : part = ToString(n) \/ part = "0" \o ToString(n)
    ELSE ParseError

\* parse_rotation_time on the parts rotation_time.split(':') yields:
\* <<hour, minute>>, or <<>> for None
parse_rotation_time(parts) ==
    IF Len(parts) # 2 THEN <<>>
    ELSE LET hour == ParseU32(parts[1])
             minute == ParseU32(parts[2])
         IN IF hour = ParseError \/ minute = ParseError THEN <<>>
            ELSE IF hour < HoursPerDay /\ minute < MinsPerHour   \* from_hms_opt
            THEN <<hour, minute>>
            ELSE <<>>

\* NaiveDate::parse_from_str(name, "%Y-%m-%d"): the day, or ParseError
ParseDate(name) ==
    IF \E d \in 0..(MaxDay + 1) : FormatDate(d) = name
    THEN CHOOSE d \in 0..(MaxDay + 1) : FormatDate(d) = name
    ELSE ParseError

KnownLogFiles == {"heartbeat.log", "red.log", "serenity.log"}

\* line 61: today.signed_duration_since(dir_date) >= rotation_limit
TooOld_OffByOne(today, dir_date, rotation_frequency_days) ==
    today - dir_date >= rotation_frequency_days - 1

TooOld_Strict(today, dir_date, rotation_frequency_days) ==
    today - dir_date > rotation_frequency_days

TooOld(today, dir_date, rotation_frequency_days) ==
    today - dir_date >= rotation_frequency_days

\* a pass that stops deleting after its first deletion
Deletes_OncePerPass(entry, rotation_frequency_days, today) ==
    /\ rot_removed = {}
    /\ IF ~entry.dir
       THEN entry.name \notin KnownLogFiles
       ELSE IF ParseDate(entry.name) # ParseError
            THEN TooOld(today, ParseDate(entry.name), rotation_frequency_days)
            ELSE TRUE

\* process_entry_async: whether the entry is to be deleted
Deletes(entry, rotation_frequency_days, today) ==
    IF ~entry.dir
    THEN entry.name \notin KnownLogFiles
    ELSE IF ParseDate(entry.name) # ParseError
         THEN TooOld(today, ParseDate(entry.name), rotation_frequency_days)
         ELSE TRUE

\* schedule_log_rotation, lines 109-110: the task panics on a bad rotation time
RotParse ==
    /\ rot_pc = "start"
    /\ rot_pc' = IF parse_rotation_time(cfg.rotation_time) = <<>>
                 THEN "panicked" ELSE "rotate"
    /\ UNCHANGED <<spawned, passvars, wake_at, schedvars>>
    /\ UNCHANGED <<cfg, confvars, clock, logvars, prodvars, fsvars, wvars, nrvars>>

\* a task that stops at the first pass that returns an error
AfterPass_StopOnErr(result) == IF result = "Err" THEN "stopped" ELSE "schedule"

\* the match of lines 114-117 and 131-134: either arm logs and falls through
\* to the computation of the next rotation time
AfterPass(result) == IF result = "Err" THEN "schedule" ELSE "schedule"

\* rotate_logs_async up to read_dir (lines 78-92); io: read_dir succeeds or fails
RotBegin(io) ==
    /\ rot_pc = "rotate"
    /\ IF ~base_exists
       THEN /\ rot_result' = "Ok"
            /\ rot_pc' = AfterPass("Ok")
            /\ rot_snap' = {}
            /\ rot_todo' = {}
            /\ rot_removed' = {}
            /\ rot_failed' = {}
            /\ UNCHANGED rot_today
       ELSE /\ rot_today' = DateOf(clock)
            /\ rot_removed' = {}
            /\ rot_failed' = {}
            /\ IF io = "fail"
               THEN /\ rot_result' = "Err"
                    /\ rot_pc' = AfterPass("Err")
                    /\ rot_snap' = {}
                    /\ rot_todo' = {}
               ELSE /\ rot_snap' = fs
                    /\ rot_todo' = fs
                    /\ rot_result' = IF fs = {} THEN "Ok" ELSE "Running"
                    /\ rot_pc' = IF fs = {} THEN AfterPass("Ok") ELSE "scan"
    /\ pass_starts' = IF probe THEN Append(pass_starts, clock) ELSE pass_starts
    /\ failed_passes' = IF probe /\ base_exists /\ io = "fail"
                        THEN failed_passes \cup {Len(pass_starts')}
                        ELSE failed_passes
    /\ done_passes' = IF probe /\ rot_result' # "Running"
                      THEN Append(done_passes,
                                  [today |-> DateOf(clock), result |-> rot_result',
                                   removed |-> {}, left |-> fs])
                      ELSE done_passes
    /\ UNCHANGED <<spawned, wake_at, probe, slept_for, lag>>
    /\ UNCHANGED <<cfg, confvars, clock, logvars, prodvars, fsvars, wvars, nrvars>>

\* one turn of the while loop of line 94: next_entry, then process_entry_async;
\* io: every call succeeds, or the metadata read or the delete fails
RotEntry(entry, io) ==
    /\ rot_pc = "scan"
    /\ entry \in rot_todo
    /\ IF io = "fail"
       THEN /\ rot_result' = "Err"              \* the ? of line 95 returns
            /\ rot_pc' = AfterPass("Err")
            /\ rot_todo' = {}
            /\ rot_failed' = {entry}
            /\ UNCHANGED <<fs, rot_removed>>
       ELSE /\ IF Deletes(entry, cfg.retention_days, rot_today)
               THEN /\ fs' = fs \ {entry}
                    /\ rot_removed' = rot_removed \cup {entry}
               ELSE UNCHANGED <<fs, rot_removed>>
            /\ rot_todo' = rot_todo \ {entry}
            /\ UNCHANGED rot_failed
            /\ rot_result' = IF rot_todo = {entry} THEN "Ok" ELSE "Running"
            /\ rot_pc' = IF rot_todo = {entry} THEN AfterPass("Ok") ELSE "scan"
    /\ failed_passes' = IF probe /\ io = "fail"
                        THEN failed_passes \cup {Len(pass_starts)}
                        ELSE failed_passes
    /\ done_passes' = IF probe /\ rot_result' # "Running"
                      THEN Append(done_passes,
                                  [today |-> rot_today, result |-> rot_result',
                                   removed |-> rot_removed', left |-> fs'])
                      ELSE done_passes
    /\ UNCHANGED <<rot_today, rot_snap, spawned, wake_at, base_exists>>
    /\ UNCHANGED <<probe, pass_starts, slept_for, lag>>
    /\ UNCHANGED <<cfg, confvars, clock, logvars, prodvars, wvars, nrvars>>

\* lines 119-129: compute the next rotation time and go to sleep
RotSchedule ==
    /\ rot_pc = "schedule"
    /\ LET next_rotation ==
               get_next_rotation_time(clock, parse_rotation_time(cfg.rotation_time))
           sleep_duration == IF next_rotation - clock >= 0
                             THEN next_rotation - clock ELSE 0
       IN /\ wake_at' = clock + sleep_duration
          /\ slept_for' = IF probe THEN Append(slept_for, next_rotation)
                                    ELSE slept_for
    /\ lag' = 0
    /\ rot_pc' = "sleep"
    /\ rot_snap' = {}                            \* the pass's locals are dropped
    /\ rot_todo' = {}
    /\ rot_removed' = {}
    /\ rot_failed' = {}
    /\ rot_today' = 0
    /\ UNCHANGED <<spawned, rot_result, probe, pass_starts, failed_passes,
                   done_passes>>
    /\ UNCHANGED <<cfg, confvars, clock, logvars, prodvars, fsvars, wvars, nrvars>>

\* time::sleep returns once the deadline has passed
RotWake ==
    /\ rot_pc = "sleep"
    /\ clock >= wake_at
    /\ rot_pc' = "rotate"
    /\ wake_at' = 0
    /\ UNCHANGED <<spawned, passvars, schedvars>>
    /\ UNCHANGED <<cfg, confvars, clock, logvars, prodvars, fsvars, wvars, nrvars>>

\* the wall clock advances; the process is observed on the hour
Tick ==
    /\ clock + HourLen < (MaxDay + 1) * DayLen
    /\ clock' = clock + HourLen
    /\ UNCHANGED <<cfg, confvars, logvars, prodvars, fsvars, rotvars, wvars, nrvars>>

\* the task has something to do: it is not suspended in the sleep of line 129
Runnable ==
    \/ rot_pc \in {"start", "rotate", "scan", "schedule"}
    \/ rot_pc = "sleep" /\ clock >= wake_at

\* the wall clock advances under a fair scheduler: a runnable task is polled
\* before more than MaxLag ticks have passed
TickOnTime ==
    /\ clock + HourLen < (MaxDay + 1) * DayLen
    /\ Runnable => lag < MaxLag
    /\ clock' = clock + HourLen
    /\ lag' = IF Runnable THEN lag + 1 ELSE 0
    /\ UNCHANGED <<cfg, confvars, logvars, prodvars, fsvars, wvars, nrvars>>
    /\ UNCHANGED <<spawned, rot_pc, passvars, wake_at, probe, pass_starts, slept_for,
                   failed_passes, done_passes>>

(***************************************************************************)
(* The configuration store (bot/utils/config.rs)                           *)
(*                                                                         *)
(* config.toml is a sequence of lines: a table header, a key/value pair or *)
(* a line that is not TOML.  A value is its type and its lexeme.  A parsed *)
(* document (toml::Value) maps each top-level key to an entry: a scalar    *)
(* [t, v] or a table with fields.                                          *)
(***************************************************************************)
NoFile == <<[kind |-> "absent", key |-> "", t |-> "", v |-> ""]>>

Header(name) == [kind |-> "header", key |-> name, t |-> "", v |-> ""]
Pair(key, val) == [kind |-> "pair", key |-> key, t |-> val.t, v |-> val.v]
Junk == [kind |-> "junk", key |-> "", t |-> "", v |-> ""]

Str(x) == [t |-> "str", v |-> x]
Int_(x) == [t |-> "int", v |-> x]
Bool_(x) == [t |-> "bool", v |-> x]

NoFields == [k \in {} |-> Str("")]
Scalar(val) == [t |-> val.t, v |-> val.v, fields |-> NoFields]
Table(fields) == [t |-> "table", v |-> "", fields |-> fields]
EmptyDoc == [k \in {} |-> Table(NoFields)]

\* a function with one more (or one replaced) key
Put(f, k, x) == [j \in (DOMAIN f) \cup {k} |-> IF j = k THEN x ELSE f[j]]
\* Map::retain
Retain(f, keep) == [j \in (DOMAIN f) \cap keep |-> f[j]]

\* the keys of the model in the order of a BTreeMap<String, _>
KeyOrder ==
    <<"bogus", "debug", "directory", "enable_debug", "extra_logs",
      "extra_section", "frequency", "log-filter", "log-level", "logging",
      "logrotate", "red", "rotation_time", "shards", "token", "weird">>

RECURSIVE Reverse(_)
Reverse(q) == IF q = <<>> THEN <<>> ELSE Append(Reverse(Tail(q)), Head(q))

\* the keys of f in the order `order`
KeysIn(f, order) == SelectSeq(order, LAMBDA k : k \in DOMAIN f)

RECURSIVE Concat(_)
Concat(qq) == IF qq = <<>> THEN <<>> ELSE Head(qq) \o Concat(Tail(qq))

\* toml::from_str::<Value>: the document of a text, or ParseFailed when a
\* line is not TOML or a key or table is defined twice
ParseFailed == [k \in {"!"} |-> Table(NoFields)]

RECURSIVE ParseLines(_, _, _)
ParseLines(lines, section, doc) ==
    IF lines = <<>> THEN doc
    ELSE LET l == Head(lines) IN
         IF l.kind = "header"
         THEN IF l.key \in DOMAIN doc THEN ParseFailed
              ELSE ParseLines(Tail(lines), l.key, Put(doc, l.key, Table(NoFields)))
         ELSE IF l.kind = "pair"
         THEN IF section = ""
              THEN IF l.key \in DOMAIN doc THEN ParseFailed
                   ELSE ParseLines(Tail(lines), section,
                                   Put(doc, l.key, Scalar([t |-> l.t, v |-> l.v])))
              ELSE IF l.key \in DOMAIN doc[section].fields THEN ParseFailed
                   ELSE ParseLines(Tail(lines), section,
                          Put(doc, section,
                              Table(Put(doc[section].fields, l.key,
                                        [t |-> l.t, v |-> l.v]))))
         ELSE ParseFailed

Parse(text) == ParseLines(text, "", EmptyDoc)

\* a document written out: the top-level scalars, then each table's header
\* and pairs, keys in the order `order`
Render(doc, order) ==
    LET keys == KeysIn(doc, order)
        scalars == SelectSeq(keys, LAMBDA k : doc[k].t # "table")
        tables == SelectSeq(keys, LAMBDA k : doc[k].t = "table")
        TableLines(k) ==
            LET fk == KeysIn(doc[k].fields, order) IN
            <<Header(k)>> \o [i \in 1..Len(fk) |-> Pair(fk[i], doc[k].fields[fk[i]])]
    IN [i \in 1..Len(scalars) |-> Pair(scalars[i], doc[scalars[i]])]
       \o Concat([i \in 1..Len(tables) |-> TableLines(tables[i])])

\* toml::to_string_pretty(&Value): a Value's tables are BTreeMaps
ToStringPretty(doc) == Render(doc, KeyOrder)

\* Config::new (lines 50-62): the typed configuration with its defaults
ConfigNew(token, shards) ==
    [token |-> token, shards |-> shards,
     log_level |-> "info", log_filter |-> "Both", directory |-> "logs",
     frequency |-> "7d"]

NoConfig == ConfigNew("", 0 - 1)

\* the integers a document of the model can hold, with their lexemes
IntValues == (0 - 1)..7
ParseInt(lexeme) == CHOOSE n \in IntValues : ToString(n) = lexeme

\* the Serialize derived for Config (lines 8-46): sections and fields in
\* the order of declaration, with the serde names
StructOrder ==
    <<"red", "token", "shards",
      "logging", "log-level", "log-filter", "directory",
      "logrotate", "frequency">>

ConfigToDoc(c) ==
    [sec \in {"red", "logging", "logrotate"} |->
        IF sec = "red"
        THEN Table([k \in {"token", "shards"} |->
                      IF k = "token" THEN Str(c.token) ELSE Int_(ToString(c.shards))])
        ELSE IF sec = "logging"
        THEN Table([k \in {"log-level", "log-filter", "directory"} |->
                      IF k = "log-level" THEN Str(c.log_level)
                      ELSE IF k = "log-filter" THEN Str(c.log_filter)
                      ELSE Str(c.directory)])
        ELSE Table([k \in {"frequency"} |-> Str(c.frequency)])]

\* toml::to_string_pretty(&Config)
ConfigToStringPretty(c) == Render(ConfigToDoc(c), StructOrder)

\* lines 99, 109, 144, 184
known_sections == {"red", "logging", "logrotate"}
known_fields(sec) ==
    IF sec = "red" THEN {"token", "shards"}
    ELSE IF sec = "logging" THEN {"log-level", "log-filter", "directory"}
    ELSE {"frequency"}

\* the value inserted for a missing field and written over one of the wrong
\* type (lines 113-133, 148-173, 188-197)
DefaultValue(sec, k) ==
    IF k = "token" THEN Str("placeholder_token")
    ELSE IF k = "shards" THEN Int_("1")
    ELSE IF k = "log-level" THEN Str("info")
    ELSE IF k = "log-filter" THEN Str("Both")
    ELSE IF k = "directory" THEN Str("logs")
    ELSE Str("7d")

\* a type check that lets every value through
TypeOk_Any(sec, k, val) == val.t \in {"str", "int", "bool"}

\* is_str / is_integer of lines 125, 130, 160, 165, 170, 194
TypeOk(sec, k, val) == IF k = "shards" THEN val.t = "int" ELSE val.t = "str"

\* a repair that inserts a missing section empty and fills only the
\* sections it found
SanitiseSection_LazyInsert(doc, sec) ==
    IF sec \notin DOMAIN doc THEN Table(NoFields)
    ELSE IF doc[sec].t # "table" THEN doc[sec]
    ELSE Table([k \in known_fields(sec) |->
                  IF k \in DOMAIN doc[sec].fields
                     /\ TypeOk(sec, k, doc[sec].fields[k])
                  THEN doc[sec].fields[k]
                  ELSE DefaultValue(sec, k)])

\* one known section (lines 105-134, 139-174, 179-198): the entry is taken
\* or inserted as an empty table; if it is a table, unknown fields are
\* dropped, missing ones inserted and wrongly typed ones overwritten
SanitiseSection(doc, sec) ==
    LET entry == IF sec \in DOMAIN doc THEN doc[sec] ELSE Table(NoFields) IN
    IF entry.t # "table" THEN entry
    ELSE LET retained == Retain(entry.fields, known_fields(sec))
             inserted == [k \in known_fields(sec) |->
                            IF k \in DOMAIN retained THEN retained[k]
                            ELSE DefaultValue(sec, k)]
             typed == [k \in DOMAIN inserted |->
                            IF TypeOk(sec, k, inserted[k]) THEN inserted[k]
                            ELSE DefaultValue(sec, k)]
         IN Table(typed)

\* a repair that keeps the top-level entries it does not know
Sanitise_KeepSections(doc) ==
    [sec \in (DOMAIN doc) \cup known_sections |->
        IF sec \in known_sections THEN SanitiseSection(doc, sec) ELSE doc[sec]]

\* lines 99-198
Sanitise(doc) ==
    LET table == Retain(doc, known_sections) IN
    [sec \in known_sections |-> SanitiseSection(table, sec)]

\* the types serde expects for the fields of RedConfig, LoggingConfig and
\* LogRotateConfig (lines 19-46)
SerdeTypeOk(k, val) == IF k = "shards" THEN val.t = "int" ELSE val.t = "str"

\* toml::from_str::<Config> (line 204): every section a table, every field
\* of its type, shards a u64
Deserializable(doc) ==
    /\ doc # ParseFailed
    /\ \A sec \in known_sections :
          /\ sec \in DOMAIN doc
          /\ doc[sec].t = "table"
          /\ \A k \in known_fields(sec) :
                /\ k \in DOMAIN doc[sec].fields
                /\ SerdeTypeOk(k, doc[sec].fields[k])
    /\ ParseInt(doc["red"].fields["shards"].v) >= 0

Deserialize(doc) ==
    [token |-> doc["red"].fields["token"].v,
     shards |-> ParseInt(doc["red"].fields["shards"].v),
     log_level |-> doc["logging"].fields["log-level"].v,
     log_filter |-> doc["logging"].fields["log-filter"].v,
     directory |-> doc["logging"].fields["directory"].v,
     frequency |-> doc["logrotate"].fields["frequency"].v]

\* a validation that does not look at the token
validate_NoTokenCheck(c) ==
    IF ToLowercase(c.log_level) \notin {"info", "debug", "trace"}
    THEN "error_log_level"
    ELSE IF ToLowercase(c.log_filter) \notin {"internal", "external", "both"}
    THEN "error_log_filter"
    ELSE ""

\* Config::validate (lines 211-246): the error it logs before exiting, or
\* "" when it returns
validate(c) ==
    IF c.token = "placeholder_token" THEN "error_placeholder_token"
    ELSE IF ToLowercase(c.log_level) \notin {"info", "debug", "trace"}
    THEN "error_log_level"
    ELSE IF ToLowercase(c.log_filter) \notin {"internal", "external", "both"}
    THEN "error_log_filter"
    ELSE ""

\* no run of the loader yet
ConfIdle ==
    /\ file = NoFile
    /\ snaps = <<[text |-> NoFile, wrote |-> FALSE]>>
    /\ wrote = FALSE
    /\ outcome = "None"
    /\ loaded = NoConfig
    /\ notices = <<>>
    /\ delivered = <<>>
    /\ edits = 0
    /\ loads = 0

\* a cold start that leaves config.toml absent and goes on to exit
CreateDefault_NoWrite(io) ==
    [file |-> NoFile, wrote |-> FALSE,
     outcome |-> IF io = "write" THEN "Io" ELSE "Exit1",
     loaded |-> NoConfig, notices |-> <<"warn_not_found">>]

\* lines 69-79: config.toml does not exist
CreateDefault(io) ==
    LET default_config == ConfigNew("placeholder_token", 1) IN
    IF io = "write"                                           \* the ? of line 74
    THEN [file |-> NoFile, wrote |-> FALSE, outcome |-> "Io",
          loaded |-> NoConfig, notices |-> <<"warn_not_found">>]
    ELSE [file |-> ConfigToStringPretty(default_config),
          wrote |-> TRUE, outcome |-> "Exit1", loaded |-> NoConfig,
          notices |-> <<"warn_not_found", "error_created">>]

\* a loader that repairs a malformed file without a word
ParseWarnings_Silent(malformed) == IF malformed THEN <<>> ELSE <<>>

\* the Err arm of lines 85-91: the warning logged when the text is not TOML
ParseWarnings(malformed) == IF malformed THEN <<"warn_malformed">> ELSE <<>>

\* what one run of load_or_create_and_validate does (lines 65-208) to
\* config.toml holding `text`; io: every call succeeds, or the read or the
\* write fails
LoadResult(text, io) ==
    IF text = NoFile THEN CreateDefault(io)                   \* lines 69-79
    ELSE IF io = "read"                                       \* line 82
    THEN [file |-> text, wrote |-> FALSE, outcome |-> "Io",
          loaded |-> NoConfig, notices |-> <<>>]
    ELSE LET malformed == Parse(text) = ParseFailed           \* lines 83-92
             parsed == IF malformed THEN EmptyDoc ELSE Parse(text)
             warned == ParseWarnings(malformed)
             sanitised == Sanitise(parsed)                    \* lines 95-198
             written == ToStringPretty(sanitised)             \* line 201
             reparsed == Parse(ToStringPretty(sanitised))     \* line 204
         IN
         IF io = "write"
         THEN [file |-> text, wrote |-> FALSE, outcome |-> "Io",
               loaded |-> NoConfig, notices |-> warned]
         ELSE IF ~Deserializable(reparsed)
         THEN [file |-> written, wrote |-> TRUE, outcome |-> "Deser",
               loaded |-> NoConfig, notices |-> warned]
         ELSE IF validate(Deserialize(reparsed)) # ""          \* line 205
         THEN [file |-> written, wrote |-> TRUE, outcome |-> "Exit1",
               loaded |-> NoConfig,
               notices |-> Append(warned, validate(Deserialize(reparsed)))]
         ELSE [file |-> written, wrote |-> TRUE, outcome |-> "Ok",
               loaded |-> Deserialize(reparsed), notices |-> warned]

\* logger::log_warn, logger::log_error (bot/utils/logger.rs 186-191): the
\* record the warn! or error! macro builds for a message of the loader
NoticeRecord(notice) ==
    [level |-> IF notice \in {"warn_not_found", "warn_malformed"}
               THEN "Warn" ELSE "Error",
     target |-> <<"red", "::", "bot", "::", "utils", "::", "logger">>,
     msg |-> <<notice>>]

\* the messages whose record the dispatcher d gave to at least one sink
DeliveredBy(d, ss, messages) ==
    SelectSeq(messages,
              LAMBDA n : Received(ss, DispatchLog(d, ss, NoticeRecord(n))) # {})

\* one run of the process up to the return of load_or_create_and_validate;
\* the process calls it before init_logger_with_config, which needs the
\* Config it returns
Load(io) ==
    /\ loads < MaxLoads
    /\ ~installed
    /\ LET r == LoadResult(file, io) IN
         /\ file' = r.file
         /\ wrote' = r.wrote
         /\ outcome' = r.outcome
         /\ loaded' = r.loaded
         /\ notices' = r.notices
         /\ delivered' = DeliveredBy(dispatcher, sinks, r.notices)
         /\ sinks' = DispatchAll(dispatcher, sinks,
                                 [i \in 1..Len(r.notices) |->
                                     NoticeRecord(r.notices[i])])
         /\ snaps' = Append(snaps, [text |-> r.file, wrote |-> r.wrote])
    /\ loads' = loads + 1
    /\ UNCHANGED edits
    /\ UNCHANGED <<installed, installs, dispatcher, open_day, init_result>>
    /\ UNCHANGED <<cfg, clock, prodvars, fsvars, rotvars, wvars, nrvars>>

\* the operator's editor writes keys in another order than the loader
HandOrder == Reverse(KeyOrder)

\* what the operator may put under a key of a section
FieldChoices(sec) ==
    IF sec = "red"
    THEN {<<"token", Str("real")>>, <<"token", Str("placeholder_token")>>,
          <<"token", Int_("5")>>,
          <<"shards", Int_("2")>>, <<"shards", Int_("-1")>>,
          <<"shards", Str("two")>>,
          <<"bogus", Int_("3")>>}
    ELSE IF sec = "logging"
    THEN {<<"log-level", Str("debug")>>, <<"log-level", Str("warn")>>,
          <<"log-level", Str("INFO")>>, <<"log-level", Str("verbose")>>,
          <<"log-level", Bool_("true")>>,
          <<"log-filter", Str("weird")>>,
          <<"directory", Int_("5")>>,
          <<"extra_logs", Bool_("false")>>}
    ELSE {<<"frequency", Str("30d")>>, <<"frequency", Int_("7")>>,
          <<"rotation_time", Str("01:00")>>, <<"token", Str("real")>>}

\* what the operator may put at the top level
RootChoices ==
    {<<"red", Scalar(Int_("5"))>>,
     <<"extra_section", Scalar(Str("should_remove"))>>,
     <<"weird", Table([k \in {"bogus"} |-> Int_("1")])>>,
     <<"debug", Table([k \in {"enable_debug"} |-> Bool_("true")])>>}

ConfigEdits ==
    {[op |-> "set", sec |-> sec, key |-> c[1], val |-> c[2]] :
        sec \in known_sections, c \in FieldChoices("red") \cup
            FieldChoices("logging") \cup FieldChoices("logrotate")}
    \cup {[op |-> "unset", sec |-> sec, key |-> k, val |-> Str("")] :
            sec \in known_sections,
            k \in {"token", "shards", "log-level", "log-filter", "directory",
                   "frequency"}}
    \cup {[op |-> "drop", sec |-> sec, key |-> "", val |-> Str("")] :
            sec \in known_sections}
    \cup {[op |-> o, sec |-> "", key |-> "", val |-> Str("")] :
            o \in {"junk", "delete"}}

\* the document after an edit of a field or a section
ApplyEdit(doc, e) ==
    LET fields == IF e.sec \in DOMAIN doc /\ doc[e.sec].t = "table"
                  THEN doc[e.sec].fields ELSE NoFields IN
    IF e.op = "set" THEN Put(doc, e.sec, Table(Put(fields, e.key, e.val)))
    ELSE IF e.op = "unset"
    THEN Put(doc, e.sec, Table(Retain(fields, (DOMAIN fields) \ {e.key})))
    ELSE Retain(doc, (DOMAIN doc) \ {e.sec})

EditApplies(doc, e) ==
    IF e.op = "set" THEN <<e.key, e.val>> \in FieldChoices(e.sec)
    ELSE IF e.op = "unset"
    THEN /\ e.sec \in DOMAIN doc
         /\ doc[e.sec].t = "table"
         /\ e.key \in DOMAIN doc[e.sec].fields
    ELSE IF e.op = "drop" THEN e.sec \in DOMAIN doc
    ELSE TRUE

\* the operator edits config.toml between two runs of the process
OperatorEdit(e) ==
    /\ edits < MaxEdits
    /\ file # NoFile
    /\ Parse(file) # ParseFailed
    /\ EditApplies(Parse(file), e)
    /\ file' = IF e.op = "delete" THEN NoFile
               ELSE IF e.op = "junk" THEN Append(file, Junk)
               ELSE Render(ApplyEdit(Parse(file), e), HandOrder)
    /\ snaps' = <<[text |-> file', wrote |-> FALSE]>>
    /\ edits' = edits + 1
    /\ UNCHANGED <<wrote, outcome, loaded, notices, delivered, loads>>
    /\ UNCHANGED <<cfg, clock, logvars, prodvars, fsvars, rotvars, wvars, nrvars>>

\* the operator adds a key or a section at the top level
OperatorEditRoot(c) ==
    /\ edits < MaxEdits
    /\ file # NoFile
    /\ Parse(file) # ParseFailed
    /\ file' = Render(Put(Parse(file), c[1], c[2]), HandOrder)
    /\ snaps' = <<[text |-> file', wrote |-> FALSE]>>
    /\ edits' = edits + 1
    /\ UNCHANGED <<wrote, outcome, loaded, notices, delivered, loads>>
    /\ UNCHANGED <<cfg, clock, logvars, prodvars, fsvars, rotvars, wvars, nrvars>>

(***************************************************************************)
(* The states the process starts in                                        *)
(***************************************************************************)
LogLevelStrings == {"error", "warn", "info", "debug", "trace", "INFO", "verbose"}

RotationTimes == {<<"00", "00">>, <<"01", "00">>, <<"25", "61">>}

Targets == {<<"serenity", "::", "gateway">>, <<"heartbeat">>, <<"red", "::", "bot">>}

Messages ==
    HEARTBEAT_WORDS
    \cup {<<" ", "heartbeat;", " ">>, <<"hello">>, <<" ">>, <<"x", "heartbeat;">>}

Records == [level : Levels, target : Targets, msg : Messages]

EntryUniverse ==
    {Partition(d) : d \in 0..MaxDay}
    \cup {DirEntry("junk"), FileEntry("notes.txt"), FileEntry("red.log")}

\* a directory holds one entry per name
Directories ==
    {es \in SUBSET EntryUniverse :
        /\ Cardinality(es) <= MaxEntries
        /\ \A e1, e2 \in es : e1.name = e2.name => e1 = e2}

NoSinks == [s \in SinkNames |-> WriterNew]

LogIdle ==
    /\ installed = FALSE
    /\ installs = 0
    /\ dispatcher = NoDispatch
    /\ open_day = 0
    /\ sinks = NoSinks
    /\ init_result = "None"

RotIdle ==
    /\ spawned = 0
    /\ rot_pc = "none"
    /\ rot_today = 0
    /\ rot_snap = {}
    /\ rot_todo = {}
    /\ rot_removed = {}
    /\ rot_failed = {}
    /\ rot_result = "None"
    /\ wake_at = 0
    /\ probe = FALSE
    /\ pass_starts = <<>>
    /\ slept_for = <<>>
    /\ failed_passes = {}
    /\ done_passes = <<>>
    /\ lag = 0

SysIdle ==
    /\ cfg = [log_level |-> "info", extra_logs |-> TRUE, retention_days |-> 1,
              rotation_time |-> <<"00", "00">>]
    /\ clock = 0
    /\ LogIdle
    /\ ConfIdle
    /\ RotIdle
    /\ rec = [level |-> "Info", target |-> <<"red", "::", "bot">>, msg |-> <<"hello">>]
    /\ logged = 0
    /\ got = {}
    /\ reached = FALSE
    /\ ProdIdle
    /\ base_exists = FALSE
    /\ fs = {}

(***************************************************************************)
(* Specifications                                                          *)
(***************************************************************************)
WIdle ==
    /\ buffer = <<>> /\ inner = <<>> /\ chunks = <<>> /\ elided = 0 /\ wcalls = 0
    /\ input = <<>>
NRIdle == nr_now = 0 /\ nr_rt = <<0, 0>> /\ nr_next = NoInstant /\ FqIdle

\* the writer driven by every sequence of write and flush calls
InitWriter == WInit /\ NRIdle /\ SysIdle
NextWriter == (\E buf \in SeqsUpTo(WBytes, MaxWriteLen) : Write(buf)) \/ Flush
SpecWriter == InitWriter /\ [][NextWriter]_vars

\* get_next_rotation_time applied to every instant and rotation time
InitNextRotation == NRInit /\ FqIdle /\ WIdle /\ SysIdle
NextNextRotation == ComputeNext
SpecNextRotation == InitNextRotation /\ [][NextNextRotation]_vars

\* parse_frequency applied to every short frequency string
InitFrequency ==
    /\ FqInit
    /\ nr_now = 0 /\ nr_rt = <<0, 0>> /\ nr_next = NoInstant
    /\ WIdle
    /\ SysIdle
NextFrequency == ParseFrequency
SpecFrequency == InitFrequency /\ [][NextFrequency]_vars

\* the dispatcher: one configuration, one producer emitting one record
InitSinks ==
    /\ WIdle /\ NRIdle
    /\ cfg \in [log_level : LogLevelStrings, extra_logs : BOOLEAN,
                retention_days : {1}, rotation_time : {<<"00", "00">>}]
    /\ clock = 0
    /\ LogIdle
    /\ ConfIdle
    /\ RotIdle
    /\ rec \in Records
    /\ logged = 0
    /\ got = {}
    /\ reached = FALSE
    /\ ProdIdle
    /\ base_exists = FALSE
    /\ fs = {}
NextSinks == (\E io \in InitIo : InitLogger(io)) \/ Log
SpecSinks == InitSinks /\ [][NextSinks]_vars

\* the records the two producers log
ProducerRecords ==
    [level : {"Warn", "Info", "Debug"},
     target : {<<"red", "::", "bot">>, <<"serenity", "::", "gateway">>},
     msg : {<<"hello">>, <<"heartbeat;">>}]

\* the logger is initialised, then two producers log one record each, their
\* steps interleaved in every way
InitProducers ==
    /\ WIdle /\ NRIdle
    /\ cfg \in [log_level : {"info"}, extra_logs : BOOLEAN,
                retention_days : {1}, rotation_time : {<<"00", "00">>}]
    /\ clock = 0
    /\ LogIdle
    /\ ConfIdle
    /\ RotIdle
    /\ rec = [level |-> "Info", target |-> <<"red", "::", "bot">>, msg |-> <<"hello">>]
    /\ logged = 0
    /\ got = {}
    /\ reached = FALSE
    /\ precs \in [Producers -> ProducerRecords]
    /\ ppc = [p \in Producers |-> NotEmitted]
    /\ holder = [s \in SinkNames |-> 0]
    /\ base_exists = FALSE
    /\ fs = {}
NextProducers ==
    \/ InitLogger("ok")
    \/ \E p \in Producers :
          Emit(p) \/ Lock(p) \/ WriteText(p) \/ WriteSep(p) \/ FlushUnlock(p)
SpecProducers == InitProducers /\ [][NextProducers]_vars

\* the process: the clock, the logger's initialisation and the rotator task
\* over a base directory with any few entries
Init ==
    /\ WIdle /\ NRIdle
    /\ cfg \in [log_level : {"info"}, extra_logs : {TRUE},
                retention_days : 0..MaxRetention, rotation_time : RotationTimes]
    /\ clock = 0
    /\ LogIdle
    /\ ConfIdle
    /\ RotIdle
    /\ rec = [level |-> "Info", target |-> <<"red", "::", "bot">>, msg |-> <<"hello">>]
    /\ logged = 0
    /\ got = {}
    /\ reached = FALSE
    /\ ProdIdle
    /\ base_exists \in BOOLEAN
    /\ fs \in Directories
    /\ ~base_exists => fs = {}
Next ==
    \/ Tick
    \/ \E io \in InitIo : InitLogger(io)
    \/ RotParse
    \/ \E io \in {"ok", "fail"} : RotBegin(io)
    \/ \E entry \in EntryUniverse, io \in {"ok", "fail"} : RotEntry(entry, io)
    \/ RotSchedule
    \/ RotWake
Spec == Init /\ [][Next]_vars

\* schedule_log_rotation called at any hour of the first day, with an observer
\* of its passes and sleeps, under a scheduler that polls a runnable task
\* within MaxLag ticks
InitSchedule ==
    /\ WIdle /\ NRIdle
    /\ cfg \in [log_level : {"info"}, extra_logs : {TRUE},
                retention_days : 0..MaxRetention, rotation_time : RotationTimes]
    /\ clock \in {t \in Instants : DateOf(t) = 0 /\ t % HourLen = 0}
    /\ LogIdle
    /\ ConfIdle
    /\ spawned = 1
    /\ rot_pc = "start"
    /\ rot_today = 0
    /\ rot_snap = {}
    /\ rot_todo = {}
    /\ rot_removed = {}
    /\ rot_failed = {}
    /\ rot_result = "None"
    /\ wake_at = 0
    /\ probe = TRUE
    /\ pass_starts = <<>>
    /\ slept_for = <<>>
    /\ failed_passes = {}
    /\ done_passes = <<>>
    /\ lag = 0
    /\ rec = [level |-> "Info", target |-> <<"red", "::", "bot">>, msg |-> <<"hello">>]
    /\ logged = 0
    /\ got = {}
    /\ reached = FALSE
    /\ ProdIdle
    /\ base_exists \in BOOLEAN
    /\ fs \in Directories
    /\ ~base_exists => fs = {}
NextSchedule ==
    \/ TickOnTime
    \/ RotParse
    \/ \E io \in {"ok", "fail"} : RotBegin(io)
    \/ \E entry \in EntryUniverse, io \in {"ok", "fail"} : RotEntry(entry, io)
    \/ RotSchedule
    \/ RotWake
SpecSchedule == InitSchedule /\ [][NextSchedule]_vars

\* the configuration store: config.toml absent, empty, or a complete
\* document in the loader's or the operator's layout; the operator edits it
\* and the process is run
InitialDocument == ConfigToDoc([ConfigNew("real", 2) EXCEPT !.log_level = "debug"])
InitConfig ==
    /\ WIdle /\ NRIdle
    /\ cfg = [log_level |-> "info", extra_logs |-> TRUE, retention_days |-> 1,
              rotation_time |-> <<"00", "00">>]
    /\ clock = 0
    /\ LogIdle
    /\ RotIdle
    /\ rec = [level |-> "Info", target |-> <<"red", "::", "bot">>, msg |-> <<"hello">>]
    /\ logged = 0
    /\ got = {}
    /\ reached = FALSE
    /\ ProdIdle
    /\ base_exists = FALSE
    /\ fs = {}
    /\ file \in {NoFile, <<>>, Render(InitialDocument, KeyOrder),
                 Render(InitialDocument, HandOrder)}
    /\ snaps = <<[text |-> file, wrote |-> FALSE]>>
    /\ wrote = FALSE
    /\ outcome = "None"
    /\ loaded = NoConfig
    /\ notices = <<>>
    /\ delivered = <<>>
    /\ edits = 0
    /\ loads = 0
NextConfig ==
    \/ \E io \in {"ok", "read", "write"} : Load(io)
    \/ \E e \in ConfigEdits : OperatorEdit(e)
    \/ \E c \in RootChoices : OperatorEditRoot(c)
SpecConfig == InitConfig /\ [][NextConfig]_vars

\* init_logger_with_config, called with the Config the loader returned
InitAfterLoad(io) ==
    /\ outcome = "Ok"
    /\ InitLogger(io)

\* the start of the process: the configuration is loaded, then the logger is
\* initialised with it; the operator edits config.toml between runs
InitStartup == InitConfig
NextStartup ==
    \/ \E io \in {"ok", "read", "write"} : Load(io)
    \/ \E e \in ConfigEdits : OperatorEdit(e)
    \/ \E c \in RootChoices : OperatorEditRoot(c)
    \/ \E io \in InitIo : InitAfterLoad(io)
SpecStartup == InitStartup /\ [][NextStartup]_vars

(***************************************************************************)
(* Properties of the dispatcher                                            *)
(***************************************************************************)
Threshold == LogLevelOf(cfg.log_level)
SerenityTarget == StartsWith(rec.target, <<"serenity">>)

\* C3: a record with a serenity target and a severity below warn reaches no
\* sink when extra_logs is on, and never the console or red.log, whatever its
\* message and the global threshold.
C3_LowSerenityReachesNoSink ==
    (reached /\ SerenityTarget /\ rec.level \in {"Info", "Debug", "Trace"}) =>
        /\ cfg.extra_logs => got = {}
        /\ "console" \notin got
        /\ "red.log" \notin got

\* C4: with extra_logs on, a record with a serenity target of severity warn
\* or error that passes the global threshold reaches serenity.log, and
\* neither red.log nor the console.
C4_HighSerenityReachesSerenityLog ==
    (/\ reached /\ cfg.extra_logs /\ SerenityTarget
     /\ rec.level \in {"Warn", "Error"}
     /\ LevelEnabled(rec.level, Threshold)) =>
        /\ "serenity.log" \in got
        /\ "console" \notin got
        /\ "red.log" \notin got

C1_OpenPartitionNeverDeleted ==
    [][(installed /\ cfg.retention_days >= 1 /\ Partition(open_day) \in fs) =>
          Partition(open_day) \in fs']_vars

PassRunningOrDone == rot_pc \in {"scan", "schedule"}
PassDoneOk == rot_pc = "schedule" /\ rot_result = "Ok"

\* C2: with a retention of at least one day, a pass whose `today` is T
\* neither deletes <base>/T nor leaves it missing if it was there.
C2_TodayPartitionKept ==
    (PassRunningOrDone /\ cfg.retention_days >= 1) =>
        /\ Partition(rot_today) \notin rot_removed
        /\ Partition(rot_today) \in rot_snap => Partition(rot_today) \in fs

\* a pass on date T found <base>/T, deleted other entries and returned
C2_Witness ==
    /\ PassDoneOk
    /\ cfg.retention_days >= 1
    /\ Partition(rot_today) \in rot_snap
    /\ rot_removed # {}

\* what C8 says is kept: the three log files, and the dated directories
\* younger than the retention
Retained(e) ==
    \/ ~e.dir /\ e.name \in {"red.log", "serenity.log", "heartbeat.log"}
    \/ /\ e.dir
       /\ \E d \in 0..(MaxDay + 1) :
             FormatDate(d) = e.name /\ rot_today - d < cfg.retention_days

\* the partitions a call of init_logger_with_config may have created since
\* the pass took its date
CreatedSincePass == {Partition(d) : d \in rot_today..MaxDay}

\* C8: after a pass over an existing base directory that returned Ok, the
\* entries the pass deleted are exactly the entries it found that are neither
\* one of the three log files nor a dated directory younger than the
\* retention; an entry it found exists afterwards iff it is one of those kept,
\* and nothing exists that the pass did not find - in both cases apart from
\* a partition that init_logger_with_config created after the pass began.
C8_PassKeepsExactlyRetained ==
    PassDoneOk =>
        /\ rot_removed \subseteq rot_snap
        /\ \A e \in rot_snap : e \notin rot_removed <=> Retained(e)
        /\ \A e \in rot_snap \ CreatedSincePass : e \in fs <=> Retained(e)
        /\ \A e \in fs : e \in rot_snap \/ e \in CreatedSincePass

\* a pass deleted a directory exactly retention days old and a stray file,
\* and kept a younger directory
C8_Witness ==
    /\ PassDoneOk
    /\ cfg.retention_days >= 1
    /\ \E e \in rot_removed :
          e.dir /\ e.name = FormatDate(rot_today - cfg.retention_days)
    /\ \E e \in rot_snap \ rot_removed : e.dir
    /\ Cardinality(rot_removed) >= 2

\* C9: a pass in which a file system call on one entry failed still returns
\* Ok, and has deleted every other entry it is to delete.
C9_EntryFailureDoesNotStopPass ==
    (rot_pc = "schedule" /\ rot_failed # {}) =>
        /\ rot_result = "Ok"
        /\ \A e \in rot_snap \ rot_failed :
              ~Retained(e) => e \in rot_removed

(***************************************************************************)
(* Properties of the line writer                                           *)
(***************************************************************************)
\* the lines of a byte stream: the text before each "\n" and the tail after
\* the last one when that tail is not empty
RECURSIVE LinesOf(_)
LinesOf(s) ==
    LET pos == NewlinePos(s, 1) IN
    IF pos = 0 THEN (IF s = <<>> THEN <<>> ELSE <<s>>)
    ELSE <<SubSeq(s, 1, pos - 1)>> \o LinesOf(SubSeq(s, pos + 1, Len(s)))

IsBlank(s) == \A i \in 1..Len(s) : s[i] \in WhiteSpace

\* C6: whatever write and flush calls were made, nothing forwarded to the
\* underlying writer is empty after trimming: neither a forwarded slice nor a
\* line of the stream the underlying writer has received.
C6_NoEmptyLineForwarded ==
    /\ \A i \in 1..Len(chunks) : ~IsBlank(chunks[i])
    /\ \A i \in 1..Len(LinesOf(inner)) : ~IsBlank(LinesOf(inner)[i])

\* a blank line was dropped and a line was forwarded, with a flush in between
C6_Witness ==
    /\ elided > 0
    /\ Len(chunks) >= 2
    /\ \E i \in 1..Len(chunks) : chunks[i][Len(chunks[i])] # "\n"

(***************************************************************************)
(* Properties of the next rotation time                                    *)
(***************************************************************************)
\* the instants after `now` that the clock can show within the next two days
Later(now) == (now + 1)..(now + 2 * DayLen)

\* the least element of a non-empty set of instants
Least(S) == CHOOSE t \in S : \A u \in S : t <= u

\* C10 as stated: the result is the least instant after now whose hour and
\* minute are those of rotation_time (the seconds are left free).
C10_LeastInstantHourMinute ==
    nr_next # NoInstant =>
        nr_next = Least({t \in Later(nr_now) :
                            HourOf(t) = nr_rt[1] /\ MinuteOf(t) = nr_rt[2]})

\* C10 amended: the result is the least instant after now that shows
\* rotation_time with zero seconds.
C10_LeastInstantOnTheMinute ==
    nr_next # NoInstant =>
        nr_next = Least({t \in Later(nr_now) :
                            /\ HourOf(t) = nr_rt[1]
                            /\ MinuteOf(t) = nr_rt[2]
                            /\ SecondOf(t) = 0})

\* the call was made at the rotation time itself, and later within its minute
C10_Witness ==
    /\ nr_next # NoInstant
    /\ HourOf(nr_now) = nr_rt[1]
    /\ MinuteOf(nr_now) = nr_rt[2]
    /\ SecondOf(nr_now) > 0
    /\ nr_next = AndTime(DateOf(nr_now) + 1, FromHms(nr_rt))

(***************************************************************************)
(* Properties of the rotator's schedule                                    *)
(***************************************************************************)
RotationTimeParsed == parse_rotation_time(cfg.rotation_time) # <<>>

\* t is an occurrence of the configured rotation time: HH:MM:00 on some day
Occurrence(t) ==
    /\ RotationTimeParsed
    /\ TimeOf(t) = FromHms(parse_rotation_time(cfg.rotation_time))

\* the passes other than the first that began in the day starting at o
PassesAfter(o) ==
    {i \in 2..Len(pass_starts) :
        o <= pass_starts[i] /\ pass_starts[i] < o + DayLen}

\* C11: with a rotation time that parses, the task makes its first pass
\* before its first sleep, and for every occurrence of the rotation time
\* after that pass began, exactly one pass begins between that occurrence
\* and the next one.
C11_OnePassPerOccurrence ==
    RotationTimeParsed =>
        /\ rot_pc = "sleep" => pass_starts # <<>>
        /\ Len(slept_for) = 1 /\ rot_pc = "sleep" => Len(pass_starts) = 1
        /\ \A o \in Instants :
              (/\ Occurrence(o)
               /\ pass_starts # <<>>
               /\ o > pass_starts[1]
               /\ o + DayLen <= clock)
              => Cardinality(PassesAfter(o)) = 1

\* C11 as amended: passes and sleeps alternate, beginning with a pass; each
\* sleep is until an occurrence of the rotation time later than the start of
\* the pass before it and at most a day after the clock was read; the next
\* pass begins at or after that occurrence, within the scheduler's lag; a
\* task whose rotation time does not parse makes no pass.
C11_OnePassPerAwaitedOccurrence ==
    /\ ~RotationTimeParsed => pass_starts = <<>> /\ slept_for = <<>>
    /\ Len(pass_starts) =
          Len(slept_for) + (IF rot_pc \in {"scan", "schedule"} THEN 1 ELSE 0)
    /\ rot_pc = "sleep" => pass_starts # <<>>
    /\ \A i \in 1..Len(slept_for) :
          /\ Occurrence(slept_for[i])
          /\ slept_for[i] > pass_starts[i]
          /\ slept_for[i] <= pass_starts[i] + MaxLag * HourLen + DayLen
          /\ i + 1 <= Len(pass_starts) =>
                /\ pass_starts[i + 1] >= slept_for[i]
                /\ pass_starts[i + 1] <= slept_for[i] + MaxLag * HourLen

\* the task has made two passes and sleeps for the third
C11_Witness ==
    /\ rot_pc = "sleep"
    /\ Len(pass_starts) >= 2
    /\ Len(slept_for) >= 2

(***************************************************************************)
(* Properties of the configuration store                                   *)
(***************************************************************************)
\* the loader has run since the operator last touched config.toml
Ran == Len(snaps) >= 2

\* config.toml as the last run found it, and as the run before found it
Found == snaps[Len(snaps) - 1].text

\* the document the last run found, or ParseFailed
FoundDoc == IF Found = NoFile THEN ParseFailed ELSE Parse(Found)

\* the document config.toml holds now
FileDoc == IF file = NoFile THEN ParseFailed ELSE Parse(file)

C13_FreshConfigReturned ==
    (Ran /\ Found = NoFile /\ wrote) =>
        /\ outcome = "Ok"
        /\ loaded.token = "placeholder_token"
        /\ loaded.shards = 1
        /\ \E i \in 1..Len(file) :
              file[i].kind = "pair" /\ file[i].v = "placeholder_token"

\* the schema the specification declares: section, key as written in
\* config.toml, default
SchemaFields ==
    {<<"red", "token", Str("placeholder_token")>>,
     <<"red", "shards", Int_("1")>>,
     <<"logging", "log-level", Str("info")>>,
     <<"logging", "directory", Str("logs")>>,
     <<"logging", "extra_logs", Bool_("true")>>,
     <<"logrotate", "frequency", Str("7d")>>,
     <<"logrotate", "rotation_time", Str("00:00")>>,
     <<"debug", "enable_debug", Bool_("false")>>,
     <<"debug", "debug_server_id", Str("000000000000000000")>>}

\* the document has no value for the field: its section or its key is absent
Missing(doc, f) ==
    \/ f[1] \notin DOMAIN doc
    \/ doc[f[1]].t = "table" /\ f[2] \notin DOMAIN doc[f[1]].fields

\* the document holds `val` for the field
Holds(doc, f, val) ==
    /\ f[1] \in DOMAIN doc
    /\ doc[f[1]].t = "table"
    /\ f[2] \in DOMAIN doc[f[1]].fields
    /\ doc[f[1]].fields[f[2]] = val

\* a run found a document that parses and wrote its repair
Repaired == Ran /\ Found # NoFile /\ FoundDoc # ParseFailed /\ wrote

\* C14: for every field of the schema (sections red, logging, logrotate and
\* debug) that the document found lacks, the rewritten document holds the
\* field with its default, and so does the configuration returned.
C14_MissingFieldsGetDefaults ==
    Repaired =>
        \A f \in SchemaFields :
            Missing(FoundDoc, f) =>
                /\ Holds(FileDoc, f, f[3])
                /\ outcome = "Ok" => Holds(ConfigToDoc(loaded), f, f[3])

\* the keys of a document the loader does not know: entries at the top
\* level outside known_sections, and fields of a known table outside its
\* known_fields
UnknownSections(doc) == (DOMAIN doc) \ known_sections
UnknownFields(doc, sec) ==
    IF sec \in DOMAIN doc /\ doc[sec].t = "table"
    THEN (DOMAIN doc[sec].fields) \ known_fields(sec)
    ELSE {}

\* the names the loader knows at no level
KnownNames ==
    known_sections \cup UNION {known_fields(sec) : sec \in known_sections}

\* the keys of the header and pair lines of a text
KeysOf(text) ==
    {text[i].key : i \in {j \in 1..Len(text) : text[j].kind \in {"header", "pair"}}}

\* C15: whatever document a run finds, the document it writes back holds no
\* top-level entry outside the known sections and, in a known section, no
\* key outside that section's known fields; a name the loader knows nowhere
\* that stood in the text found, well-formed or not, is nowhere in the text
\* written.
C15_UnknownKeysRemoved ==
    (Ran /\ Found # NoFile /\ wrote) =>
        /\ FileDoc # ParseFailed
        /\ FoundDoc # ParseFailed =>
              /\ \A k \in UnknownSections(FoundDoc) : k \notin DOMAIN FileDoc
              /\ \A sec \in known_sections :
                    \A k \in UnknownFields(FoundDoc, sec) :
                        k \notin UnknownFields(FileDoc, sec)
        /\ UnknownSections(FileDoc) = {}
        /\ \A sec \in known_sections : UnknownFields(FileDoc, sec) = {}
        /\ \A k \in KeysOf(Found) \ KnownNames : k \notin KeysOf(file)

\* a run found a document with an entry at the top level that it does not
\* know, and wrote its repair
C15_Witness ==
    /\ Repaired
    /\ UnknownSections(FoundDoc) # {}
    /\ file # Found

\* the known fields of the document whose value is not of the type the
\* structs declare for them
WrongTyped(doc) ==
    {f \in {<<sec, k>> : sec \in known_sections,
                         k \in {"token", "shards", "log-level", "log-filter",
                                "directory", "frequency"}} :
        /\ f[2] \in known_fields(f[1])
        /\ f[1] \in DOMAIN doc
        /\ doc[f[1]].t = "table"
        /\ f[2] \in DOMAIN doc[f[1]].fields
        /\ ~SerdeTypeOk(f[2], doc[f[1]].fields[f[2]])}

ValidValue(f, val) ==
    IF f[2] = "shards" THEN val.t = "int" /\ ParseInt(val.v) >= 0
    ELSE IF f[2] \in {"extra_logs", "enable_debug"} THEN val.t = "bool"
    ELSE IF f[2] = "token" THEN val.t = "str" /\ val.v # ""
    ELSE IF f[2] = "log-level"
    THEN /\ val.t = "str"
         /\ ToLowercase(val.v) \in {"error", "warn", "info", "debug", "trace"}
    ELSE IF f[2] = "rotation_time"
    THEN val.t = "str" /\ val.v \in {"00:00", "01:00"}
    ELSE val.t = "str"

\* the fields of the schema for which the document holds a valid value
ValidFields(doc) ==
    {f \in SchemaFields :
        /\ ~Missing(doc, f)
        /\ doc[f[1]].t = "table"
        /\ ValidValue(f, doc[f[1]].fields[f[2]])}

\* C17: every field of the schema whose value in the document found is
\* valid has that value in the document written back and, when the run
\* returns a configuration, in that configuration.
C17_ValidFieldsPreserved ==
    Repaired =>
        \A f \in ValidFields(FoundDoc) :
            LET val == FoundDoc[f[1]].fields[f[2]] IN
            /\ Holds(FileDoc, f, val)
            /\ outcome = "Ok" => Holds(ConfigToDoc(loaded), f, val)

\* C18: a run that finds a document and writes config.toml leaves it such
\* that the next run, whatever it does, leaves the same text: the file after
\* two consecutive runs is the file after the first.
C18_LoadIdempotent ==
    \A i \in 2..(Len(snaps) - 1) :
        (snaps[i - 1].text # NoFile /\ snaps[i].wrote) =>
            snaps[i + 1].text = snaps[i].text

\* two consecutive runs both wrote config.toml, the first one changing the
\* document it found
C18_Witness ==
    /\ Len(snaps) = 3
    /\ snaps[1].text # NoFile
    /\ snaps[2].wrote
    /\ snaps[3].wrote
    /\ snaps[2].text # snaps[1].text

\* the notices of the last run, as a set
Noticed == {notices[i] : i \in 1..Len(notices)}

C20_FiveLogLevelsAccepted ==
    (/\ Ran /\ Found # NoFile /\ wrote
     /\ Deserializable(FileDoc)
     /\ Deserialize(FileDoc).token # "placeholder_token"
     /\ ToLowercase(Deserialize(FileDoc).log_filter)
            \in {"internal", "external", "both"})
    => LET log_level == ToLowercase(Deserialize(FileDoc).log_level) IN
       IF log_level \in {"error", "warn", "info", "debug", "trace"}
       THEN outcome = "Ok" /\ loaded.log_level = Deserialize(FileDoc).log_level
       ELSE outcome = "Exit1" /\ "error_log_level" \in Noticed

(***************************************************************************)
(* Further properties of the dispatcher                                    *)
(***************************************************************************)
\* the levels of the lines a sink's file or stdout has received: the token
\* between the brackets of "{} [{}] {}"
WrittenLevels(s) ==
    {l \in Levels :
        \E i \in 2..Len(sinks[s].inner) :
            /\ sinks[s].inner[i - 1] = "["
            /\ sinks[s].inner[i] \in {l, colorize_level(l)}}

\* C21: whatever log_level is configured, no sink (console, red.log,
\* serenity.log, heartbeat.log) ever receives a line of a record whose
\* severity is below the threshold derived from log_level: neither one of
\* the records the initialisation logs nor a producer's record.
C21_NothingBelowThreshold ==
    /\ \A s \in SinkNames :
          \A l \in WrittenLevels(s) : LevelRank[l] <= FilterRank[Threshold]
    /\ (reached /\ LevelRank[rec.level] > FilterRank[Threshold]) => got = {}

\* the sinks hold the lines the initialisation logged, and a producer's
\* record below the threshold was handed to the dispatcher and reached none
C21_Witness ==
    /\ reached
    /\ LevelRank[rec.level] > FilterRank[Threshold]
    /\ got = {}
    /\ WrittenLevels("red.log") # {}
    /\ WrittenLevels("console") # {}

\* the lines the initialisation left in sink s
InitLines(s) == LinesOf(DispatchAll(dispatcher, NoSinks, InitRecords(cfg))[s].inner)

\* the line of producer p's record at sink s
LineOf(p, s) == ChainFormat(s, precs[p])

\* the position of sink s among the chains, 0 when it is not one
ChainIndex(s) ==
    IF \E j \in 1..Len(dispatcher.chains) : dispatcher.chains[j] = s
    THEN CHOOSE j \in 1..Len(dispatcher.chains) : dispatcher.chains[j] = s
    ELSE 0

\* the producers whose record sink s accepts and whose line, with its
\* newline, has been given to the writer of s
Delivered(s) ==
    {p \in Producers :
        /\ ChainIndex(s) # 0
        /\ ppc[p].step # "idle"
        /\ LevelEnabled(precs[p].level, dispatcher.level)
        /\ ChainFilter(s, precs[p])
        /\ ~IsBlank(LineOf(p, s))
        /\ \/ ppc[p].step = "done"
           \/ ppc[p].chain > ChainIndex(s)
           \/ ppc[p].chain = ChainIndex(s) /\ ppc[p].step = "flush"}

\* the lines sink s received after those of the initialisation
ProducerLines(s) ==
    LET ls == LinesOf(sinks[s].inner) IN
    SubSeq(ls, Len(InitLines(s)) + 1, Len(ls))

C23_FailedPassDoesNotStopTask ==
    \A i \in failed_passes :
        /\ rot_pc \in {"schedule", "sleep", "rotate", "scan"}
        /\ i <= Len(pass_starts)
        /\ \/ i <= Len(slept_for)
           \/ i = Len(pass_starts) /\ rot_pc = "schedule"
        /\ i <= Len(slept_for) =>
              /\ Occurrence(slept_for[i])
              /\ slept_for[i] > pass_starts[i]
              /\ \/ clock <= slept_for[i] + MaxLag * HourLen
                 \/ i + 1 <= Len(pass_starts)
              /\ i + 1 <= Len(pass_starts) =>
                    /\ pass_starts[i + 1] >= slept_for[i]
                    /\ pass_starts[i + 1] <= slept_for[i] + MaxLag * HourLen

\* a pass returned an error, the task slept until the rotation time and a
\* later pass has begun
C23_Witness ==
    \E i \in failed_passes :
        /\ i + 1 <= Len(pass_starts)
        /\ i <= Len(slept_for)
        /\ pass_starts[i + 1] >= slept_for[i]

(***************************************************************************)
(* Further properties of the configuration store                           *)
(***************************************************************************)
\* the last run found a config.toml that is not TOML
Malformed == Ran /\ Found # NoFile /\ FoundDoc = ParseFailed

\* C24: a run that finds a config.toml that does not parse returns no error
\* on that account: unless a read or write fails, it logs the warning,
\* treats the document as empty and writes back the document of all
\* defaults; the defaults holding the placeholder token, the run then ends
\* at the token check, not in a parse or deserialisation error.
C24_ParseFailureRepairedToDefaults ==
    Malformed =>
        /\ outcome # "Deser"
        /\ outcome = "Io" => ~wrote /\ file = Found
        /\ outcome # "Io" =>
              /\ wrote
              /\ "warn_malformed" \in Noticed
              /\ file = ToStringPretty(Sanitise(EmptyDoc))
              /\ FileDoc = ConfigToDoc(ConfigNew("placeholder_token", 1))
              /\ outcome = "Exit1"
              /\ notices = <<"warn_malformed", "error_placeholder_token">>

\* a run found a malformed config.toml and wrote the defaults over it
C24_Witness ==
    /\ Malformed
    /\ wrote
    /\ "warn_malformed" \in Noticed
    /\ file # Found

(***************************************************************************)
(* Properties of the retention                                             *)
(***************************************************************************)
\* C25: for every frequency string the retention handed to the rotator is
\* at least one day: "Nd" and a bare "N", surrounding whitespace trimmed,
\* give N, and every other string gives 7.
C25_RetentionAtLeastOneDay ==
    fq_days # NoDays =>
        /\ fq_days >= 1
        /\ IsNumber(DaysPart(fq_text)) => fq_days = NumberOf(DaysPart(fq_text))
        /\ ~IsNumber(DaysPart(fq_text)) => fq_days = 7

\* C26: on a cold start the warning and the error the loader logs before it
\* exits both reach the operator's output.
C26_ColdStartNoticesDelivered ==
    (Ran /\ Found = NoFile /\ outcome = "Exit1") =>
        /\ notices = <<"warn_not_found", "error_created">>
        /\ delivered = notices

\* C27: when a pass has returned Ok and the next pass runs on the same local
\* date with the same retention, the second pass leaves the base directory
\* exactly as the first left it, whatever the second returns.
C27_SecondPassChangesNothing ==
    \A i \in 1..(Len(done_passes) - 1) :
        (/\ done_passes[i].result = "Ok"
         /\ done_passes[i + 1].today = done_passes[i].today)
        => done_passes[i + 1].left = done_passes[i].left

\* two passes ran on the same date, the first deleting an entry and
\* returning Ok, the second scanning what was left and returning Ok
C27_Witness ==
    /\ Len(done_passes) >= 2
    /\ done_passes[1].result = "Ok"
    /\ done_passes[2].result = "Ok"
    /\ done_passes[2].today = done_passes[1].today
    /\ done_passes[1].removed # {}
    /\ done_passes[1].left # {}
    /\ done_passes[2].left = done_passes[1].left

\* the part of the input stream the writer has already decided on: all of it
\* but the bytes still held in the buffer
Consumed == SubSeq(input, 1, Len(input) - Len(buffer))

\* a byte stream with its blank lines removed: every line that is not blank
\* stays as it is, newline included
RECURSIVE WithoutBlankLines(_)
WithoutBlankLines(s) ==
    LET pos == NewlinePos(s, 1) IN
    IF pos = 0 THEN (IF IsBlank(s) THEN <<>> ELSE s)
    ELSE (IF IsBlank(SubSeq(s, 1, pos)) THEN <<>> ELSE SubSeq(s, 1, pos))
         \o WithoutBlankLines(SubSeq(s, pos + 1, Len(s)))

\* C28: after every sequence of write and flush calls the bytes forwarded to
\* the underlying writer are the input stream with exactly its blank lines
\* removed; a line that is not blank is forwarded unchanged with its newline,
\* also when a flush falls between the line's content and its newline.
C28_ForwardsInputWithoutBlankLines ==
    inner = WithoutBlankLines(Consumed)

\* C29: whenever a run of the loader has written the sanitised document back
\* to config.toml, the document on disk deserialises into the typed Config and
\* the run does not end in a deserialisation error.
C29_WrittenDocumentDeserialises ==
    (Ran /\ Found # NoFile /\ wrote)
    => (outcome # "Deser" /\ FileDoc # ParseFailed /\ Deserializable(FileDoc))

\* C30: a rotator task is spawned only by the step that installs the
\* dispatcher, one task by that step; a call to init_logger_with_config that
\* fails spawns none, so after any sequence of calls there is at most one
\* rotator task, and there is one exactly when the dispatcher is installed.
C30_RotatorSpawnedOnlyOnInstall ==
    [][/\ spawned' # spawned =>
             /\ ~installed
             /\ installed'
             /\ init_result' = "Ok"
             /\ spawned' = spawned + 1
       /\ spawned' = installs'
       /\ spawned' <= 1]_vars

\* a call made after a successful one has failed, and one rotator exists
C30_Witness ==
    /\ installed
    /\ init_result \in {"AlreadyInitialised", "Io"}
    /\ spawned = 1
    /\ rot_pc # "none"

====
